---- MODULE Spec2Model ----
(***************************************************************************)
(* Model of the QtPyVCP status engine (QtPyVCP/utilities/status.py): the   *)
(* periodic poll / diff / dispatch cycle of _Status, the per-joint diff of *)
(* _Joint, the error channel reader _Error, and the derived position       *)
(* handlers connected to the raw field signals.                            *)
(*                                                                         *)
(* lcnc      the status record published by the machine controller        *)
(* stat      the linuxcnc.stat() snapshot, refreshed only by stat.poll()   *)
(* old       _Status.old, the comparison baseline of the top-level fields  *)
(* joint_old _Joint.old, the comparison baseline of the joint records      *)
(* events    the signals emitted by the last operation, in emission order  *)
(* log       what the last operation wrote to the log / stderr             *)
(***************************************************************************)
EXTENDS Integers, Sequences, FiniteSets, TLC

VARIABLES lcnc, provider_ok, stat, old, joint_old, last_emitted,
          report_actual_position, connections, conn_error,
          timer_active, alive, key_order, err_queue,
          events, log, last_op, nchanges, axis_prev, axis_last,
          cmds, ret, halt

vars == <<lcnc, provider_ok, stat, old, joint_old, last_emitted,
          report_actual_position, connections, conn_error,
          timer_active, alive, key_order, err_queue,
          events, log, last_op, nchanges, axis_prev, axis_last,
          cmds, ret, halt>>

(***************************************************************************)
(* Bounds of the exploration.                                              *)
(***************************************************************************)
\* number of changes the machine controller makes to its status record
MaxChanges == 2
\* number of entries the error channel can hold before it is read
MaxQueue == 2

(***************************************************************************)
(* The status record.                                                      *)
(***************************************************************************)
\* INFO.AXIS_NUMBER_LIST of a two axis (XY) machine
AXIS_NUMBER_LIST == <<0, 1>>

\* Python index into a tuple
At(t, i) == t[i + 1]

\* the attributes of linuxcnc.stat that __init__ copies into self.old: the
\* position related ones, the active G-codes and one that no handler is
\* connected to
Fields == {"position", "actual_position", "joint_position",
           "joint_actual_position", "dtg", "g5x_offset", "g92_offset",
           "tool_offset", "rotation_xy", "gcodes", "file", "call_level",
           "feedrate", "estop", "task_state", "interp_state"}

\* the fields that change while the machine moves or is set up
MotionFields ==
  Fields \ {"gcodes", "file", "call_level", "estop", "task_state",
            "interp_state"}

\* the order in which the signals are declared in class _Status
DeclOrder == <<"position", "actual_position", "joint_position",
               "joint_actual_position", "dtg", "g5x_offset", "g92_offset",
               "tool_offset", "rotation_xy", "gcodes", "file", "call_level",
               "feedrate", "estop", "task_state", "interp_state">>

RECURSIVE Reverse(_)
Reverse(s) == IF s = <<>> THEN <<>> ELSE Append(Reverse(Tail(s)), Head(s))

\* dict iteration order of self.old: fixed for one process, but given by the
\* hashes of the keys and not by the declaration order
KeyOrders == {DeclOrder, Reverse(DeclOrder)}

\* the values of stat.task_state
TaskStates == {"STATE_ESTOP", "STATE_ESTOP_RESET", "STATE_OFF", "STATE_ON"}

\* the values of stat.interp_state
InterpStates ==
  {"INTERP_IDLE", "INTERP_READING", "INTERP_PAUSED", "INTERP_WAITING"}

\* the values of stat.file and of stat.call_level
Files == {"", "a.ngc", "b.ngc"}
CallLevels == {0, 1}

\* the values the machine controller can publish for a field
Dom(f) ==
  CASE f = "position"              -> {<<0, 0>>, <<4, 2>>}
    [] f = "actual_position"       -> {<<0, 0>>, <<5, 3>>}
    [] f = "joint_position"        -> {<<0, 0>>, <<6, 6>>}
    [] f = "joint_actual_position" -> {<<0, 0>>, <<7, 7>>}
    [] f = "dtg"                   -> {<<0, 0>>, <<0, 9>>}
    [] f = "g5x_offset"            -> {<<0, 0>>, <<1, 0>>}
    [] f = "g92_offset"            -> {<<0, 0>>, <<0, 1>>}
    [] f = "tool_offset"           -> {<<0, 0>>, <<1, 1>>}
    [] f = "rotation_xy"           -> {0, 90}
    [] f = "feedrate"              -> {1, 2}
    [] f = "file"                  -> Files
    [] f = "call_level"            -> CallLevels
    [] f = "interp_state"          -> InterpStates

\* raw codes of stat.gcodes: the sentinel -1 and G1, G1.1, G2
Codes == {-1, 10, 11, 20}

\* stat.gcodes when the engine is built: slot 0 set, no code active
InitGcodes == <<30, -1, -1, -1>>

\* the values of stat.gcodes: slot 0 and three modal groups, and the list of
\* five entries <<_, 10, 11, -1, 20>>
GcodeLists ==
  {<<30, a, b, c>> : a \in Codes, b \in Codes, c \in Codes}
    \cup {<<30, 10, 11, -1, 20>>}

\* the attributes of one entry of stat.joint, each with a signal in _Joint
JointAttrs == {"homed", "fault"}
JointAttrOrders == {<<"homed", "fault">>, <<"fault", "homed">>}

\* stat.joints as read by _Joint.__init__
num_joints == 2

InitJoint  == [j \in 1..num_joints |-> [a \in JointAttrs |-> FALSE]]

\* the status record of the machine controller when the engine is built
InitRecord ==
  [f \in Fields \cup {"joint"} |->
     IF f = "joint" THEN InitJoint
     ELSE IF f \in {"rotation_xy"} THEN 0
     ELSE IF f = "feedrate" THEN 1
     ELSE IF f = "gcodes" THEN InitGcodes
     ELSE IF f = "file" THEN ""
     ELSE IF f = "call_level" THEN 0
     ELSE IF f = "estop" THEN 1
     ELSE IF f = "task_state" THEN "STATE_ESTOP"
     ELSE IF f = "interp_state" THEN "INTERP_IDLE"
     ELSE <<0, 0>>]

(***************************************************************************)
(* The error channel.                                                      *)
(***************************************************************************)
ErrorKinds   == {"NML_ERROR", "OPERATOR_ERROR"}
MessageKinds == {"NML_TEXT", "OPERATOR_TEXT", "NML_DISPLAY", "OPERATOR_DISPLAY"}
\* a class that linuxcnc.error_channel().poll() returns and that is neither
UnknownKind  == "UNKNOWN_KIND"
Kinds        == ErrorKinds \cup MessageKinds \cup {UnknownKind}

\* Python's None as the text of an entry
PyNone == "<None>"
Texts  == {"", PyNone, "joint 0 following error"}

\* what the error channel can hold when the engine is built
InitQueues == {<<>>, <<<<"OPERATOR_ERROR", "joint 0 following error">>>>}

(***************************************************************************)
(* Signals.                                                                *)
(***************************************************************************)
Ev(src, chan, val) == [src |-> src, chan |-> chan, val |-> val]

\* signals of _Status that handlers are connected to or that handlers emit
Signals ==
  Fields \cup {"axis_positions", "joint_positions", "formated_gcodes",
               "file_loaded"}

\* the connections made by _Status.__init__, per signal in connection order
InitConnections ==
  [s \in Signals |->
     IF s \in {"position", "g5x_offset", "g92_offset", "tool_offset"}
       THEN <<"updateAxisPositions">>
     ELSE IF s = "joint_position" THEN <<"updateJointPositions">>
     ELSE IF s = "gcodes" THEN <<"updateFormatedGcodes">>
     ELSE IF s = "file" THEN <<"updateFileLoaded">>
     ELSE <<>>]

(***************************************************************************)
(* The state of the process while one operation runs.  c carries every     *)
(* field of the program (and, read only, the provider it polls); the       *)
(* operators below are the methods of status.py as functions from c to c.  *)
(*   c.fatal: what the PyQt build does with an exception that escapes a    *)
(*   slot it called: TRUE, it calls qFatal() and the process is gone;      *)
(*   FALSE, it prints the traceback and returns to the caller of emit().   *)
(***************************************************************************)
Logged(level, msg) == [level |-> level, msg |-> msg]

\* an exception leaves a slot that Qt called
Raise(c, what) ==
  [c EXCEPT !.log = Append(@, Logged("exception", what)),
            !.alive = IF c.fatal THEN FALSE ELSE @]

\* an exception leaves _periodic itself: the rest of the method is skipped
RaiseOut(c, what) == [Raise(c, what) EXCEPT !.raised = TRUE]

RECURSIVE emit(_, _, _)

\* _Status.updateAxisPositions(pos); args is <<>> for a call without argument
updateAxisPositions(c, args) ==
  LET pos == IF args = <<>>
               THEN IF c.report_actual_position
                      THEN c.stat["actual_position"]
                      ELSE c.stat["position"]
               ELSE args[1]
      dtg         == c.stat["dtg"]
      g5x_offset  == c.stat["g5x_offset"]
      g92_offset  == c.stat["g92_offset"]
      tool_offset == c.stat["tool_offset"]
      active      == {AXIS_NUMBER_LIST[n] : n \in DOMAIN AXIS_NUMBER_LIST}
      rel1 == [i \in DOMAIN g5x_offset |->
                 IF (i - 1) \in active
                   THEN At(pos, i - 1) - At(g5x_offset, i - 1)
                                       - At(tool_offset, i - 1)
                   ELSE 0]
      rel2 == [i \in DOMAIN rel1 |->
                 IF (i - 1) \in active
                   THEN rel1[i] - At(g92_offset, i - 1)
                   ELSE rel1[i]]
  IN  IF c.stat["rotation_xy"] # 0
        \* line 293 names math and stat, neither is bound in the module
        THEN Raise(c, "NameError")
        ELSE emit(c, "axis_positions", <<pos, rel2, dtg>>)

\* _Status.updateJointPositions(pos)
updateJointPositions(c, args) ==
  LET pos == IF args = <<>>
               THEN IF c.report_actual_position
                      THEN c.stat["joint_actual_position"]
                      ELSE c.stat["joint_position"]
               ELSE args[1]
  IN  emit(c, "joint_positions", pos)

\* "G{0}".format(gcode / 10) and "G{0}.{1}".format(gcode / 10, gcode % 10)
FormatGcode(gcode) ==
  IF gcode % 10 = 0
    THEN "G" \o ToString(gcode \div 10)
    ELSE "G" \o ToString(gcode \div 10) \o "." \o ToString(gcode % 10)

\* the loop of updateFormatedGcodes over the sorted codes
RECURSIVE FormatLoop(_)
FormatLoop(codes) ==
  IF codes = <<>> THEN <<>>
  ELSE IF Head(codes) = -1 THEN FormatLoop(Tail(codes))
  ELSE <<FormatGcode(Head(codes))>> \o FormatLoop(Tail(codes))

\* updateFormatedGcodes that formats gcodes and not gcodes[1:]
updateFormatedGcodes_firstSlot(c, gcodes) ==
  emit(c, "formated_gcodes",
       FormatLoop(SortSeq(gcodes, LAMBDA a, b : a < b)))

\* _Status.updateFormatedGcodes(gcodes)
updateFormatedGcodes(c, gcodes) ==
  emit(c, "formated_gcodes",
       FormatLoop(SortSeq(Tail(gcodes), LAMBDA a, b : a < b)))

\* updateFileLoaded without the test of the interpreter
updateFileLoaded_unguarded(c, file) == emit(c, "file_loaded", file)

\* _Status.updateFileLoaded(file)
updateFileLoaded(c, file) ==
  IF c.stat["interp_state"] = "INTERP_IDLE" /\ c.stat["call_level"] = 0
    THEN emit(c, "file_loaded", file)
    ELSE c

\* Qt calls one connected slot with the value of the signal
CallSlot(c, slot, value) ==
  CASE slot = "updateAxisPositions"  -> updateAxisPositions(c, <<value>>)
    [] slot = "updateJointPositions" -> updateJointPositions(c, <<value>>)
    [] slot = "updateFormatedGcodes" -> updateFormatedGcodes(c, value)
    [] slot = "updateFileLoaded"     -> updateFileLoaded(c, value)

RECURSIVE RunSlots(_, _, _)
RunSlots(c, slots, value) ==
  IF slots = <<>> \/ ~c.alive THEN c
  ELSE RunSlots(CallSlot(c, Head(slots), value), Tail(slots), value)

\* pyqtBoundSignal.emit of a signal of _Status: the slots run synchronously
emit(c, sig, value) ==
  RunSlots([c EXCEPT !.events = Append(@, Ev("status", sig, value)),
                     !.last_emitted =
                        IF sig \in Fields THEN [@ EXCEPT ![sig] = value] ELSE @],
           c.connections[sig], value)

\* Python values: an int, a str, a bool, None, or the exception raised
PyInt(n)  == [type |-> "int", n |-> n]
PyStr(s)  == [type |-> "str", s |-> s]
PyBool(b) == [type |-> "bool", b |-> b]
PyExc(e)  == [type |-> "exc", e |-> e]
PyNoneValue == [type |-> "none"]

\* what a call gave back: the value returned, the msg attribute it set and
\* what it did to the widget passed in
NoRet == [value |-> PyNoneValue, msg |-> "", widget |-> "untouched"]

\* history of the halts: "halted" from a cycle whose poll raised up to the
\* next cycle whose poll succeeds, "resumed" after that cycle; at is the
\* provider's record when the poll raised
NoHalt == [phase |-> "none", at |-> [f \in Fields |-> InitRecord[f]]]

\* the cycle c with its place in the history of the halts
Noted(c) ==
  IF ~c.provider_ok
    THEN [c EXCEPT !.halt = [phase |-> "halted",
                             at |-> [f \in Fields |-> c.lcnc[f]]]]
  ELSE IF c.halt.phase = "halted"
    THEN [c EXCEPT !.halt.phase = "resumed"]
  ELSE [c EXCEPT !.halt = NoHalt]

(***************************************************************************)
(* _Status._periodic                                                       *)
(***************************************************************************)
\* PollFailed without self.timer.stop()
PollFailed_keepsTimer(c) ==
  [c EXCEPT !.log = Append(@, Logged("warning",
                       "Status polling failed, is LinuxCNC running?"))]

\* the except branch of _periodic: stat.poll() raised
PollFailed(c) ==
  [c EXCEPT !.log = Append(@, Logged("warning",
                       "Status polling failed, is LinuxCNC running?")),
            !.timer_active = FALSE]

\* DiffStep without the store self.old[key] = new_value
DiffStep_stale(c, key) ==
  LET old_value == c.old[key]
      new_value == c.stat[key]
  IN  IF old_value # new_value
        THEN emit(c, key, new_value)
        ELSE c

\* DiffStep without the comparison old_value != new_value
DiffStep_always(c, key) ==
  LET new_value == c.stat[key]
  IN  emit([c EXCEPT !.old[key] = new_value], key, new_value)

\* one iteration of the loop over self.old.iteritems()
DiffStep(c, key) ==
  LET old_value == c.old[key]
      new_value == c.stat[key]
  IN  IF old_value # new_value
        THEN emit([c EXCEPT !.old[key] = new_value], key, new_value)
        ELSE c

RECURSIVE DiffLoop(_, _)
DiffLoop(c, keys) ==
  IF keys = <<>> \/ ~c.alive THEN c
  ELSE DiffLoop(DiffStep(c, Head(keys)), Tail(keys))

\* dict.items() of one joint record
Items(rec) == {<<a, rec[a]>> : a \in DOMAIN rec}

\* the inner loop of _Joint._periodic over tuple(set(new) - set(old)), which
\* yields the changed items in the order given by order
RECURSIVE JointEmit(_, _, _, _)
JointEmit(c, jnum, changed_items, order) ==
  IF order = <<>> THEN c
  ELSE LET a  == Head(order)
           it == {i \in changed_items : i[1] = a}
           c1 == IF it = {} THEN c
                 ELSE [c EXCEPT !.events = Append(@,
                         Ev("joint", a, <<jnum, (CHOOSE i \in it : TRUE)[2]>>))]
       IN  JointEmit(c1, jnum, changed_items, Tail(order))

RECURSIVE JointLoop(_, _, _, _, _)
\* JointLoop that emits every item of every joint, changed or not
JointLoop_unguarded(c, new, old_, jnum, orders) ==
  IF jnum >= num_joints THEN c
  ELSE JointLoop(JointEmit(c, jnum, Items(At(new, jnum)), At(orders, jnum)),
                 new, old_, jnum + 1, orders)

JointLoop(c, new, old_, jnum, orders) ==
  IF jnum >= num_joints THEN c
  \* new[jnum] or old[jnum] past the end of the tuple
  ELSE IF jnum >= Len(new) \/ jnum >= Len(old_) THEN RaiseOut(c, "IndexError")
  ELSE LET c1 == IF At(new, jnum) # At(old_, jnum)
                   THEN JointEmit(c, jnum,
                                  Items(At(new, jnum)) \ Items(At(old_, jnum)),
                                  At(orders, jnum))
                   ELSE c
       IN  JointLoop(c1, new, old_, jnum + 1, orders)

\* Joint_periodic without the store self.old = new
Joint_periodic_noStore(c, orders) ==
  JointLoop(c, c.stat["joint"], c.joint_old, 0, orders)

\* _Joint._periodic
Joint_periodic(c, orders) ==
  LET new  == c.stat["joint"]
      old_ == c.joint_old
  IN  JointLoop([c EXCEPT !.joint_old = new], new, old_, 0, orders)

\* Error_periodic with the two class lists exchanged
Error_periodic_swapped(c) ==
  IF c.err_queue = <<>> THEN c
  ELSE LET error == Head(c.err_queue)
           kind  == error[1]
           msg   == IF error[2] = "" \/ error[2] = PyNone
                      THEN "Unknown error!" ELSE error[2]
           c1    == [c EXCEPT !.err_queue = Tail(@)]
       IN  IF kind \in MessageKinds
             THEN [c1 EXCEPT !.events = Append(@, Ev("error", "new_error", msg)),
                             !.log = Append(@, Logged("error", msg))]
           ELSE IF kind \in ErrorKinds
             THEN [c1 EXCEPT !.events = Append(@, Ev("error", "new_message", msg)),
                             !.log = Append(@, Logged("info", msg))]
           ELSE [c1 EXCEPT !.log = Append(@, Logged("error", msg))]

\* Error_periodic that replaces the empty text but not None
Error_periodic_noPlaceholder(c) ==
  IF c.err_queue = <<>> THEN c
  ELSE LET error == Head(c.err_queue)
           kind  == error[1]
           msg   == IF error[2] = "" THEN "Unknown error!" ELSE error[2]
           c1    == [c EXCEPT !.err_queue = Tail(@)]
       IN  IF kind \in ErrorKinds
             THEN [c1 EXCEPT !.events = Append(@, Ev("error", "new_error", msg)),
                             !.log = Append(@, Logged("error", msg))]
           ELSE IF kind \in MessageKinds
             THEN [c1 EXCEPT !.events = Append(@, Ev("error", "new_message", msg)),
                             !.log = Append(@, Logged("info", msg))]
           ELSE [c1 EXCEPT !.log = Append(@, Logged("error", msg))]

\* _Error._periodic; error.poll() takes the oldest entry off the channel
Error_periodic(c) ==
  IF c.err_queue = <<>> THEN c
  ELSE LET error == Head(c.err_queue)
           kind  == error[1]
           msg   == IF error[2] = "" \/ error[2] = PyNone
                      THEN "Unknown error!" ELSE error[2]
           c1    == [c EXCEPT !.err_queue = Tail(@)]
       IN  IF kind \in ErrorKinds
             THEN [c1 EXCEPT !.events = Append(@, Ev("error", "new_error", msg)),
                             !.log = Append(@, Logged("error", msg))]
           ELSE IF kind \in MessageKinds
             THEN [c1 EXCEPT !.events = Append(@, Ev("error", "new_message", msg)),
                             !.log = Append(@, Logged("info", msg))]
           ELSE [c1 EXCEPT !.log = Append(@, Logged("error", msg))]

\* the body of _Status._periodic after a successful poll
PeriodicBody(c, orders) ==
  LET c1 == DiffLoop(c, c.key_order)
      c2 == IF c1.alive THEN Joint_periodic(c1, orders) ELSE c1
  IN  IF c2.alive /\ ~c2.raised THEN Error_periodic(c2) ELSE c2

\* _Status._periodic, the slot of timer.timeout
Status_periodic(c, orders) ==
  IF ~c.provider_ok
    THEN PollFailed(c)
    ELSE PeriodicBody([c EXCEPT !.stat = c.lcnc], orders)

\* startPeriodic that takes the provider's record as the new baseline
startPeriodic_rebase(c) ==
  [c EXCEPT !.timer_active = TRUE,
            !.old = [k \in Fields |-> c.lcnc[k]]]

\* _Status.startPeriodic
startPeriodic(c) == [c EXCEPT !.timer_active = TRUE]

\* _Status.forceUpdate
RECURSIVE ForceLoop(_, _)
ForceLoop(c, keys) ==
  IF keys = <<>> \/ ~c.alive THEN c
  ELSE ForceLoop(emit(c, Head(keys), c.old[Head(keys)]), Tail(keys))

\* forceUpdate that polls and republishes the fresh snapshot as the baseline
forceUpdate_polling(c) ==
  LET c1 == [c EXCEPT !.stat = c.lcnc,
                      !.old = [k \in Fields |-> c.lcnc[k]]]
  IN  ForceLoop(c1, c1.key_order)

forceUpdate(c) == ForceLoop(c, c.key_order)

(***************************************************************************)
(* _Status.setReportActualPosition                                         *)
(***************************************************************************)
Occurs(slot, slots) == \E i \in DOMAIN slots : slots[i] = slot

RECURSIVE RemoveFirst(_, _)
RemoveFirst(slot, slots) ==
  IF slots = <<>> THEN <<>>
  ELSE IF Head(slots) = slot THEN Tail(slots)
  ELSE <<Head(slots)>> \o RemoveFirst(slot, Tail(slots))

\* signal.connect(slot)
connect(c, sig, slot) == [c EXCEPT !.connections[sig] = Append(@, slot)]

\* signal.disconnect(slot): raises TypeError when slot is not connected
disconnect(c, sig, slot) ==
  IF Occurs(slot, c.connections[sig])
    THEN [c EXCEPT !.connections[sig] = RemoveFirst(slot, @)]
    ELSE [c EXCEPT !.conn_error = TRUE]

\* the swap of both subscriptions; a TypeError ends the method where it is
SwapConnections(c, from, to) ==
  LET c1 == disconnect(c, from[1], "updateAxisPositions")
      c2 == IF c1.conn_error THEN c1
            ELSE disconnect(c1, from[2], "updateJointPositions")
  IN  IF c2.conn_error THEN c2
      ELSE connect(connect(c2, to[1], "updateAxisPositions"),
                   to[2], "updateJointPositions")

Commanded == <<"position", "joint_position">>
Actual    == <<"actual_position", "joint_actual_position">>

\* setReportActualPosition without the test against the current mode
setReportActualPosition_unguarded(c, report_actual) ==
  LET c1 == [c EXCEPT !.report_actual_position = report_actual]
  IN  IF c1.report_actual_position
        THEN SwapConnections(c1, Commanded, Actual)
        ELSE SwapConnections(c1, Actual, Commanded)

setReportActualPosition(c, report_actual) ==
  IF report_actual # c.report_actual_position
    THEN LET c1 == [c EXCEPT !.report_actual_position = report_actual]
         IN  IF c1.report_actual_position
               THEN SwapConnections(c1, Commanded, Actual)
               ELSE SwapConnections(c1, Actual, Commanded)
    ELSE c

(***************************************************************************)
(* _Joint.getValue and the action groups of machine_actions.py, which read *)
(* STAT, the snapshot of the status engine, and write to CMD.              *)
(***************************************************************************)
\* getValue that keeps the tuple it read as the baseline of the joints
getValue_storing(c, jnum, attribute) ==
  IF ~c.provider_ok
    THEN [c EXCEPT !.ret.value = PyExc("linuxcnc.error")]
    ELSE LET c1 == [c EXCEPT !.stat = c.lcnc, !.joint_old = c.lcnc["joint"]]
             joint == c1.stat["joint"]
         IN  IF jnum >= Len(joint)
               THEN [c1 EXCEPT !.ret.value = PyExc("IndexError")]
             ELSE IF attribute \notin DOMAIN joint[jnum + 1]
               THEN [c1 EXCEPT !.ret.value = PyExc("KeyError")]
             ELSE [c1 EXCEPT !.ret.value = PyBool(joint[jnum + 1][attribute])]

\* _Joint.getValue(jnum, attribute), jnum >= 0; self.stat is the object
\* that _Status polls
getValue(c, jnum, attribute) ==
  IF ~c.provider_ok
    THEN [c EXCEPT !.ret.value = PyExc("linuxcnc.error")]
    ELSE LET c1 == [c EXCEPT !.stat = c.lcnc]
             joint == c1.stat["joint"]
         IN  IF jnum >= Len(joint)
               THEN [c1 EXCEPT !.ret.value = PyExc("IndexError")]
             ELSE IF attribute \notin DOMAIN joint[jnum + 1]
               THEN [c1 EXCEPT !.ret.value = PyExc("KeyError")]
             ELSE [c1 EXCEPT !.ret.value = PyBool(joint[jnum + 1][attribute])]

\* CMD.state(state)
CMD_state(c, state) == [c EXCEPT !.cmds = Append(@, <<"state", state>>)]

\* estop.activate, estop.reset
estop_activate(c) == CMD_state(c, "STATE_ESTOP")
estop_reset(c) == CMD_state(c, "STATE_ESTOP_RESET")

\* estop.is_activated
estop_is_activated(c) == [c EXCEPT !.ret.value = PyBool(c.stat["estop"] # 0)]

\* estop.toggle
estop_toggle(c) ==
  IF estop_is_activated(c).ret.value.b
    THEN estop_reset(c)
    ELSE estop_activate(c)

\* power.on, power.off
power_on(c) == CMD_state(c, "STATE_ON")
power_off(c) == CMD_state(c, "STATE_OFF")

\* power.is_on that polls before it reads
power_is_on_polling(c) ==
  [c EXCEPT !.stat = c.lcnc,
            !.ret.value = PyBool(c.lcnc["task_state"] = "STATE_ON")]

\* power.is_on
power_is_on(c) ==
  [c EXCEPT !.ret.value = PyBool(c.stat["task_state"] = "STATE_ON")]

\* power.toggle
power_toggle(c) ==
  IF power_is_on(c).ret.value.b
    THEN power_off(c)
    ELSE power_on(c)

\* widget.setEnabled(okey) and the two tips, when a widget is passed
SetWidget(c, widget, okey) ==
  IF widget = "none" THEN c
  ELSE [c EXCEPT !.ret.widget = IF okey THEN "enabled" ELSE "disabled"]

\* power.ok(widget)
power_ok(c, widget) ==
  LET okey == c.stat["task_state"] = "STATE_ESTOP_RESET"
      msg  == IF okey THEN "Turn machine on"
              ELSE "Can't turn machine ON until out of E-Stop"
  IN  SetWidget([c EXCEPT !.ret.value = PyBool(okey), !.ret.msg = msg],
                widget, okey)

\* home.ok(jnum, widget)
home_ok(c, jnum, widget) ==
  LET okay == power_is_on(c).ret.value.b
      c1   == power_is_on(c)
      msg  == IF okay THEN "" ELSE "Machine must be on to home"
  IN  SetWidget([c1 EXCEPT !.ret.value = PyBool(okay), !.ret.msg = msg],
                widget, okay)

(***************************************************************************)
(* The homing helpers of machine_actions.py.                               *)
(***************************************************************************)
\* the list literal of getAxisLetter and getAxisNumber
AxisList == <<"x", "y", "z", "a", "b", "c", "u", "v", "w", "all">>

\* the strings given to the helpers
AxisStrings ==
  {"x", "y", "z", "a", "b", "c", "u", "v", "w", "all",
   "X", "Y", "Z", "A", "B", "C", "U", "V", "W", "ALL", "All", "q", ""}

\* str.lower() on the strings given to the helpers
Lower(s) ==
  CASE s = "X" -> "x" [] s = "Y" -> "y" [] s = "Z" -> "z"
    [] s = "A" -> "a" [] s = "B" -> "b" [] s = "C" -> "c"
    [] s = "U" -> "u" [] s = "V" -> "v" [] s = "W" -> "w"
    [] s = "ALL" -> "all" [] s = "All" -> "all"
    [] OTHER -> s

\* list[i] of Python: a negative index counts from the end
ListGetItem(list, i) ==
  IF 0 <= i /\ i < Len(list) THEN PyStr(list[i + 1])
  ELSE IF 0 - Len(list) <= i /\ i < 0 THEN PyStr(list[Len(list) + i + 1])
  ELSE PyExc("IndexError")

\* list.index(x) of Python: the first position of x
ListIndex(list, x) ==
  IF \E i \in DOMAIN list : list[i] = x
    THEN PyInt((CHOOSE i \in DOMAIN list :
                  list[i] = x /\ \A j \in 1..(i - 1) : list[j] # x) - 1)
    ELSE PyExc("ValueError")

\* getAxisLetter(axis)
getAxisLetter(axis) ==
  IF axis.type = "int" THEN ListGetItem(AxisList, axis.n)
  ELSE PyStr(Lower(axis.s))

\* getAxisNumber(axis)
getAxisNumber(axis) ==
  IF axis.type = "str" THEN ListIndex(AxisList, Lower(axis.s))
  ELSE axis

\* the integers given to the helpers: every index of the list, one beyond
\* on either side
AxisInts == (0 - Len(AxisList) - 1)..Len(AxisList)

\* the arguments of a call: a value of the caller or what the last call
\* returned
AxisArgs ==
  {PyInt(n) : n \in AxisInts} \cup {PyStr(x) : x \in AxisStrings}
    \cup (IF axis_last.fn # "none" /\ axis_last.result.type # "exc"
            THEN {axis_last.result} ELSE {})

\* no call yet
NoCall == [fn |-> "none", arg |-> PyStr(""), result |-> PyStr("")]

(***************************************************************************)
(* The state machine.                                                      *)
(***************************************************************************)
\* the state after _Status.__init__: the initial poll is taken, self.old and
\* _Joint.old hold its values, the timer waits for startPeriodic
Init ==
  /\ lcnc = InitRecord
  /\ provider_ok = TRUE
  /\ stat = lcnc
  /\ old = [f \in Fields |-> stat[f]]
  /\ joint_old = stat["joint"]
  /\ last_emitted = old
  /\ report_actual_position = FALSE
  /\ connections = InitConnections
  /\ conn_error = FALSE
  /\ timer_active = FALSE
  /\ alive = TRUE
  /\ key_order \in KeyOrders
  /\ axis_prev = NoCall
  /\ axis_last = NoCall
  /\ cmds = <<>>
  /\ ret = NoRet
  /\ halt = NoHalt
  /\ err_queue \in InitQueues
  /\ events = <<>>
  /\ log = <<>>
  /\ last_op = "init"
  /\ nchanges = 0

\* the process at the start of an operation
Ctx(fatal) ==
  [lcnc |-> lcnc, provider_ok |-> provider_ok, stat |-> stat, old |-> old,
   joint_old |-> joint_old, last_emitted |-> last_emitted,
   report_actual_position |-> report_actual_position,
   connections |-> connections, conn_error |-> conn_error,
   timer_active |-> timer_active, alive |-> alive, key_order |-> key_order,
   err_queue |-> err_queue, events |-> <<>>, log |-> <<>>, fatal |-> fatal,
   raised |-> FALSE, cmds |-> <<>>, ret |-> NoRet, halt |-> halt]

\* the process after the operation op
Commit(c, op) ==
  /\ stat' = c.stat
  /\ old' = c.old
  /\ joint_old' = c.joint_old
  /\ last_emitted' = c.last_emitted
  /\ report_actual_position' = c.report_actual_position
  /\ connections' = c.connections
  /\ conn_error' = c.conn_error
  /\ timer_active' = c.timer_active
  /\ alive' = c.alive
  /\ err_queue' = c.err_queue
  /\ events' = c.events
  /\ log' = c.log
  /\ last_op' = op
  /\ cmds' = c.cmds
  /\ ret' = c.ret
  /\ halt' = c.halt
  /\ UNCHANGED <<lcnc, provider_ok, key_order, nchanges, axis_prev, axis_last>>

\* the timer fires and Qt calls _periodic
Tick ==
  /\ alive
  /\ timer_active
  /\ \E fatal \in BOOLEAN :
       \E orders \in [1..num_joints -> JointAttrOrders] :
         Commit(Status_periodic(Ctx(fatal), orders),
                IF provider_ok THEN "periodic" ELSE "periodic_failed")

\* a timer cycle of an engine whose halts are recorded
TickNoted ==
  /\ alive
  /\ timer_active
  /\ \E fatal \in BOOLEAN :
       \E orders \in [1..num_joints -> JointAttrOrders] :
         Commit(Noted(Status_periodic(Ctx(fatal), orders)),
                IF provider_ok THEN "periodic" ELSE "periodic_failed")

StartPeriodic ==
  /\ alive
  /\ Commit(startPeriodic(Ctx(FALSE)), "startPeriodic")

ForceUpdate ==
  /\ alive
  /\ \E fatal \in BOOLEAN : Commit(forceUpdate(Ctx(fatal)), "forceUpdate")

SetReportActualPosition ==
  /\ alive
  /\ \E b \in BOOLEAN :
       Commit(setReportActualPosition(Ctx(FALSE), b), "setReportActualPosition")

\* the environment: it leaves the program's state alone
Env(op) ==
  /\ events' = <<>>
  /\ log' = <<>>
  /\ last_op' = op
  /\ cmds' = <<>>
  /\ ret' = NoRet
  /\ UNCHANGED <<stat, old, joint_old, last_emitted, report_actual_position,
                 connections, conn_error, timer_active, alive, key_order,
                 axis_prev, axis_last, halt>>

\* the machine controller publishes a new value of one field
LcncChange ==
  /\ nchanges < MaxChanges
  /\ \E f \in MotionFields : \E v \in Dom(f) :
       /\ v # lcnc[f]
       /\ lcnc' = [lcnc EXCEPT ![f] = v]
  /\ nchanges' = nchanges + 1
  /\ Env("lcnc")
  /\ UNCHANGED <<provider_ok, err_queue>>

\* the machine controller publishes a new value of one joint attribute
LcncJointChange ==
  /\ nchanges < MaxChanges
  /\ \E j \in 1..Len(lcnc["joint"]) : \E a \in JointAttrs :
       lcnc' = [lcnc EXCEPT !["joint"][j][a] = ~@]
  /\ nchanges' = nchanges + 1
  /\ Env("lcnc")
  /\ UNCHANGED <<provider_ok, err_queue>>

\* the interpreter changes the active G-codes
LcncGcodes ==
  /\ \E v \in GcodeLists :
       /\ v # lcnc["gcodes"]
       /\ lcnc' = [lcnc EXCEPT !["gcodes"] = v]
  /\ Env("lcnc")
  /\ UNCHANGED <<provider_ok, err_queue, nchanges>>

\* the machine controller is reconfigured: stat.joint loses its last record
\* or gains one
LcncJointResize ==
  /\ nchanges < MaxChanges
  /\ \E grow \in BOOLEAN : \E rec \in [JointAttrs -> BOOLEAN] :
       IF grow
         THEN /\ Len(lcnc["joint"]) <= num_joints
              /\ lcnc' = [lcnc EXCEPT !["joint"] = Append(@, rec)]
         ELSE /\ Len(lcnc["joint"]) > 0
              /\ rec = [a \in JointAttrs |-> FALSE]
              /\ lcnc' = [lcnc EXCEPT !["joint"] = SubSeq(@, 1, Len(@) - 1)]
  /\ nchanges' = nchanges + 1
  /\ Env("lcnc")
  /\ UNCHANGED <<provider_ok, err_queue>>

\* the machine controller goes away / comes back: stat.poll() raises or not
ProviderDown ==
  /\ provider_ok
  /\ provider_ok' = FALSE
  /\ Env("provider")
  /\ UNCHANGED <<lcnc, err_queue, nchanges>>

ProviderUp ==
  /\ ~provider_ok
  /\ provider_ok' = TRUE
  /\ Env("provider")
  /\ UNCHANGED <<lcnc, err_queue, nchanges>>

\* the machine controller puts an entry on the error channel
ErrPush ==
  /\ Len(err_queue) < MaxQueue
  /\ \E kind \in Kinds : \E text \in Texts :
       err_queue' = Append(err_queue, <<kind, text>>)
  /\ Env("error_channel")
  /\ UNCHANGED <<lcnc, provider_ok, nchanges>>

\* the status engine and the machine it watches
Next ==
  \/ Tick
  \/ StartPeriodic
  \/ ForceUpdate
  \/ SetReportActualPosition
  \/ LcncChange
  \/ LcncJointChange
  \/ ProviderDown
  \/ ProviderUp

Spec == Init /\ [][Next]_vars

\* the error channel reader and the channel it reads
NextErr ==
  \/ Tick
  \/ StartPeriodic
  \/ ErrPush
  \/ ProviderDown
  \/ ProviderUp

SpecErr == Init /\ [][NextErr]_vars

\* the per-joint diff and a machine whose joint records change and whose joint
\* count changes
NextJoint ==
  \/ Tick
  \/ StartPeriodic
  \/ LcncJointChange
  \/ LcncJointResize
  \/ ProviderDown
  \/ ProviderUp

SpecJoint == Init /\ [][NextJoint]_vars

\* the variables of the status engine
status_vars ==
  <<lcnc, provider_ok, stat, old, joint_old, last_emitted,
    report_actual_position, connections, conn_error, timer_active, alive,
    key_order, err_queue, events, log, last_op, nchanges, cmds, ret, halt>>

\* a caller calls getAxisLetter
GetAxisLetter ==
  /\ \E axis \in AxisArgs :
       axis_last' = [fn |-> "getAxisLetter", arg |-> axis,
                     result |-> getAxisLetter(axis)]
  /\ axis_prev' = axis_last
  /\ UNCHANGED status_vars

\* a caller calls getAxisNumber
GetAxisNumber ==
  /\ \E axis \in AxisArgs :
       axis_last' = [fn |-> "getAxisNumber", arg |-> axis,
                     result |-> getAxisNumber(axis)]
  /\ axis_prev' = axis_last
  /\ UNCHANGED status_vars

\* the homing helpers and their callers
NextAxis ==
  \/ GetAxisLetter
  \/ GetAxisNumber

SpecAxis == Init /\ [][NextAxis]_vars

\* the machine controller changes its task state
LcncTaskState ==
  /\ \E t \in TaskStates :
       /\ t # lcnc["task_state"]
       /\ lcnc' = [lcnc EXCEPT !["task_state"] = t,
                               !["estop"] = IF t = "STATE_ESTOP" THEN 1 ELSE 0]
  /\ Env("lcnc")
  /\ UNCHANGED <<provider_ok, err_queue, nchanges>>

\* the interpreter loads a file, starts or ends a run, enters or leaves a
\* subroutine
LcncFile ==
  /\ \E f \in {"file", "interp_state", "call_level"} : \E v \in Dom(f) :
       /\ v # lcnc[f]
       /\ lcnc' = [lcnc EXCEPT ![f] = v]
  /\ Env("lcnc")
  /\ UNCHANGED <<provider_ok, err_queue, nchanges>>

\* a caller reads one attribute of one joint
GetValue ==
  /\ alive
  /\ \E jnum \in 0..num_joints : \E attribute \in JointAttrs \cup {"bogus"} :
       Commit(getValue(Ctx(FALSE), jnum, attribute), "getValue")

\* the user interface asks the guards of its buttons
EstopIsActivated ==
  /\ alive
  /\ Commit(estop_is_activated(Ctx(FALSE)), "estop.is_activated")

PowerIsOn ==
  /\ alive
  /\ Commit(power_is_on(Ctx(FALSE)), "power.is_on")

PowerOk ==
  /\ alive
  /\ \E widget \in {"none", "widget"} :
       Commit(power_ok(Ctx(FALSE), widget), "power.ok")

HomeOk ==
  /\ alive
  /\ \E jnum \in 0..(num_joints - 1) : \E widget \in {"none", "widget"} :
       Commit(home_ok(Ctx(FALSE), jnum, widget), "home.ok")

\* the user presses the E-Stop button, the power button
EstopToggle ==
  /\ alive
  /\ Commit(estop_toggle(Ctx(FALSE)), "estop.toggle")

PowerToggle ==
  /\ alive
  /\ Commit(power_toggle(Ctx(FALSE)), "power.toggle")

\* the action groups and the engine whose snapshot they read
NextGuard ==
  \/ Tick
  \/ StartPeriodic
  \/ LcncTaskState
  \/ EstopIsActivated
  \/ PowerIsOn
  \/ PowerOk
  \/ HomeOk
  \/ EstopToggle
  \/ PowerToggle

SpecGuard == Init /\ [][NextGuard]_vars

\* a caller of getValue between the cycles of the engine
NextGet ==
  \/ Tick
  \/ StartPeriodic
  \/ GetValue
  \/ LcncChange
  \/ LcncJointChange
  \/ ProviderDown
  \/ ProviderUp

SpecGet == Init /\ [][NextGet]_vars

\* the engine and an interpreter that loads files and runs them
NextFile ==
  \/ Tick
  \/ StartPeriodic
  \/ ForceUpdate
  \/ LcncFile

SpecFile == Init /\ [][NextFile]_vars

\* the engine across halts of the provider
NextHalt ==
  \/ TickNoted
  \/ StartPeriodic
  \/ LcncChange
  \/ ProviderDown
  \/ ProviderUp

SpecHalt == Init /\ [][NextHalt]_vars

\* the G-code formatter and an interpreter that changes the active G-codes
NextFmt ==
  \/ Tick
  \/ StartPeriodic
  \/ LcncGcodes

SpecFmt == Init /\ [][NextFmt]_vars

(***************************************************************************)
(* Properties.                                                             *)
(***************************************************************************)
\* the events of es on the channels of the tracked top-level fields
RawEvents(es) == SelectSeq(es, LAMBDA e : e.src = "status" /\ e.chan \in Fields)
\* the events of es emitted by _Joint
JointEvents(es) == SelectSeq(es, LAMBDA e : e.src = "joint")
\* the new_error / new_message events of es
ErrorEvents(es) == SelectSeq(es, LAMBDA e : e.src = "error")
\* the axis_positions events of es
AxisEvents(es) ==
  SelectSeq(es, LAMBDA e : e.src = "status" /\ e.chan = "axis_positions")

\* the top-level fields in which the provider's record differs from self.old
Differing == {k \in Fields : old[k] # lcnc[k]}

\* the position field that the current mode selects
SelectedPosition ==
  IF report_actual_position THEN "actual_position" ELSE "position"

\* C1: the baseline of every tracked top-level field is the value last
\* emitted on its channel (its initial value if none was), and a cycle whose
\* poll raises changes neither baseline and emits nothing.
C1_BaselineIsLastPublished ==
  /\ [](\A k \in Fields : old[k] = last_emitted[k])
  /\ [][last_op' = "periodic_failed" =>
          /\ old' = old
          /\ joint_old' = joint_old
          /\ events' = <<>>]_vars

C1_Witness ==
  /\ last_op = "periodic_failed"
  /\ \E k \in Fields : old[k] # InitRecord[k]
  /\ lcnc["joint"] # joint_old

\* C2: a cycle whose poll raises stops the timer and does no diff, no joint
\* dispatch and no drain of the error channel; while the timer is stopped no
\* cycle runs, and only startPeriodic starts it again.
C2_PollFailureHalts ==
  [][/\ last_op' = "periodic_failed" =>
          /\ ~timer_active'
          /\ events' = <<>>
          /\ stat' = stat /\ old' = old /\ joint_old' = joint_old
          /\ err_queue' = err_queue
     /\ ~timer_active =>
          /\ last_op' \notin {"periodic", "periodic_failed"}
          /\ old' = old /\ joint_old' = joint_old /\ err_queue' = err_queue
          /\ timer_active' => last_op' = "startPeriodic"]_vars

C2_Witness ==
  /\ last_op = "periodic_failed"
  /\ ~timer_active
  /\ ~provider_ok
  /\ Differing # {}
  /\ err_queue # <<>>

\* C3: a successful cycle whose snapshot differs from the baseline in the one
\* field F only emits one raw event, on F with F's new value, and no joint
\* event.
C3_OneChangeOneEvent ==
  [][(/\ last_op' = "periodic"
      /\ Cardinality(Differing) = 1
      /\ lcnc["joint"] = joint_old)
     => /\ \E F \in Differing :
             RawEvents(events') = <<Ev("status", F, lcnc[F])>>
        /\ JointEvents(events') = <<>>]_vars

C3_Witness ==
  /\ last_op = "periodic"
  /\ Len(RawEvents(events)) = 1
  /\ RawEvents(events)[1].val = stat[RawEvents(events)[1].chan]
  /\ RawEvents(events)[1].val # InitRecord[RawEvents(events)[1].chan]
  /\ JointEvents(events) = <<>>

\* C4: a successful cycle whose snapshot equals the baseline in every
\* top-level field and every joint attribute emits no signal of _Status and
\* no signal of _Joint.
C4_NoChangeNoEvent ==
  [][(/\ last_op' = "periodic"
      /\ Differing = {}
      /\ lcnc["joint"] = joint_old)
     => SelectSeq(events', LAMBDA e : e.src \in {"status", "joint"}) = <<>>]_vars

C4_Witness ==
  /\ last_op = "periodic"
  /\ SelectSeq(events, LAMBDA e : e.src \in {"status", "joint"}) = <<>>
  /\ \E k \in Fields : old[k] # InitRecord[k]
  /\ joint_old # InitJoint

\* C5: the absolute component of every axis_positions event is the position
\* vector of the snapshot that the mode selects.
C5_AbsoluteIsSelectedPosition ==
  \A i \in DOMAIN events :
     (events[i].src = "status" /\ events[i].chan = "axis_positions")
       => events[i].val[1] = stat[SelectedPosition]

\* C6: a successful cycle in which the selected position field, g5x_offset,
\* g92_offset, tool_offset or rotation_xy changed publishes axis_positions.
C6_PositionInputsPublish ==
  [][(/\ last_op' = "periodic"
      /\ Differing \cap {SelectedPosition, "g5x_offset", "g92_offset",
                         "tool_offset", "rotation_xy"} # {})
     => AxisEvents(events') # <<>>]_vars

\* the number of times slot is connected to the signal sig in conn
Connected_in(conn, slot, sig) ==
  Len(SelectSeq(conn[sig], LAMBDA x : x = slot))

\* the number of times slot is connected to the signal sig
Connected(slot, sig) == Connected_in(connections, slot, sig)

\* C7: updateAxisPositions is connected once, to position or to
\* actual_position, updateJointPositions once, to joint_position or to
\* joint_actual_position, both on the side the mode names; no disconnect of
\* an unconnected handler was attempted.
C7_SubscriptionsSwapTogether ==
  /\ ~conn_error
  /\ \A s \in Signals : /\ Connected("updateAxisPositions", s) <= 1
                        /\ Connected("updateJointPositions", s) <= 1
  /\ Connected("updateAxisPositions", "position")
       = (IF report_actual_position THEN 0 ELSE 1)
  /\ Connected("updateAxisPositions", "actual_position")
       = (IF report_actual_position THEN 1 ELSE 0)
  /\ Connected("updateJointPositions", "joint_position")
       = (IF report_actual_position THEN 0 ELSE 1)
  /\ Connected("updateJointPositions", "joint_actual_position")
       = (IF report_actual_position THEN 1 ELSE 0)

C7_Witness ==
  /\ last_op = "setReportActualPosition"
  /\ report_actual_position
  /\ connections["actual_position"] = <<"updateAxisPositions">>

\* the entry that the next read of the error channel returns is of kind k
NextEntryIn(kinds) == err_queue # <<>> /\ Head(err_queue)[1] \in kinds

\* C8: an entry of a class outside the six known ones is logged and
\* published as new_error.
C8_UnknownClassIsError ==
  [][(last_op' = "periodic" /\ alive' /\ NextEntryIn({UnknownKind}))
     => /\ \E i \in DOMAIN log' : log'[i].level = "error"
        /\ \E i \in DOMAIN events' :
             events'[i].src = "error" /\ events'[i].chan = "new_error"]_vars

\* C9: an entry of an error class gives one new_error and no new_message, an
\* entry of a text or display class one new_message and no new_error.
C9_ClassDecidesSignal ==
  [][(last_op' = "periodic" /\ alive' /\ err_queue # <<>>)
     => LET entry == Head(err_queue)
            evs   == ErrorEvents(events')
        IN  /\ err_queue' = Tail(err_queue)
            /\ entry[1] \in ErrorKinds =>
                 Len(evs) = 1 /\ evs[1].chan = "new_error"
            /\ entry[1] \in MessageKinds =>
                 Len(evs) = 1 /\ evs[1].chan = "new_message"]_vars

C9_Witness ==
  /\ last_op = "periodic"
  /\ Len(ErrorEvents(events)) = 1
  /\ ErrorEvents(events)[1].chan = "new_message"
  /\ err_queue # <<>>

\* C10: no new_error or new_message carries an empty or missing text; an
\* entry of a known class with such a text is published once, on the signal
\* of its class, with the text "Unknown error!".
C10_EmptyTextPlaceholder ==
  [][(last_op' = "periodic" /\ alive')
     => LET evs == ErrorEvents(events')
        IN  /\ \A i \in DOMAIN evs : evs[i].val \notin {"", PyNone}
            /\ (err_queue # <<>> /\ Head(err_queue)[2] \in {"", PyNone}) =>
                 /\ NextEntryIn(ErrorKinds) =>
                      evs = <<Ev("error", "new_error", "Unknown error!")>>
                 /\ NextEntryIn(MessageKinds) =>
                      evs = <<Ev("error", "new_message", "Unknown error!")>>
                 /\ \A i \in DOMAIN log' : log'[i].msg = "Unknown error!"]_vars

C10_Witness ==
  /\ last_op = "periodic"
  /\ events = <<Ev("error", "new_error", "Unknown error!")>>

\* C11: forceUpdate emits one event with the current value for every
\* tracked top-level field and for every attribute of every joint.
C11_ForceUpdatePublishesAll ==
  [][(last_op' = "forceUpdate" /\ alive')
     => /\ \A k \in Fields :
             SelectSeq(RawEvents(events'), LAMBDA e : e.chan = k)
               = <<Ev("status", k, stat'[k])>>
        /\ \A j \in 1..num_joints : \A a \in JointAttrs :
             SelectSeq(JointEvents(events'),
                       LAMBDA e : e.chan = a /\ e.val[1] = j - 1)
               = <<Ev("joint", a, <<j - 1, stat'["joint"][j][a]>>)>>]_vars

\* C12: forceUpdate leaves both baselines as they are, and a forceUpdate
\* that follows a forceUpdate emits the same events in the same order.
C12_ForceUpdateIdempotent ==
  [][(last_op' = "forceUpdate" /\ alive')
     => /\ old' = old
        /\ joint_old' = joint_old
        /\ last_op = "forceUpdate" => events' = events]_vars

C12_Witness ==
  /\ last_op = "forceUpdate"
  /\ alive
  /\ Differing # {}
  /\ AxisEvents(events) # <<>>
  /\ Len(RawEvents(events)) = Cardinality(Fields)

\* the events of es that _Joint emitted on the channel a for the joint jnum
JointAttrEvents(es, jnum, a) ==
  SelectSeq(JointEvents(es), LAMBDA e : e.chan = a /\ e.val[1] = jnum)

Min(a, b) == IF a <= b THEN a ELSE b

\* C13: when the joint tuple has another length than in the cycle before, the
\* per-joint diff raises nothing, compares joints 0..min(N,M)-1 and emits the
\* changes of these joints only.
C13_JointCountToleratesResize ==
  [][(last_op' = "periodic" /\ Len(lcnc["joint"]) # Len(joint_old))
     => LET m  == Min(Len(joint_old), Len(lcnc["joint"]))
            js == JointEvents(events')
        IN  /\ alive'
            /\ \A i \in DOMAIN log' : log'[i].level # "exception"
            /\ \A i \in DOMAIN js : js[i].val[1] < m
            /\ \A j \in 1..m : \A a \in JointAttrs :
                 lcnc["joint"][j][a] # joint_old[j][a]
                   => JointAttrEvents(events', j - 1, a) # <<>>]_vars

\* C14: in a successful cycle over joint tuples that hold the joints
\* 0..num_joints-1, every attribute of every such joint gives one event with
\* (jnum, new value) when it changed and none when it did not, no other joint
\* event is emitted, and afterwards the joint baseline is the current tuple.
C14_JointDiff ==
  [][(/\ last_op' = "periodic"
      /\ alive'
      /\ Len(lcnc["joint"]) >= num_joints
      /\ Len(joint_old) >= num_joints)
     => /\ \A j \in 1..num_joints : \A a \in JointAttrs :
             JointAttrEvents(events', j - 1, a)
               = (IF lcnc["joint"][j][a] # joint_old[j][a]
                    THEN <<Ev("joint", a, <<j - 1, lcnc["joint"][j][a]>>)>>
                    ELSE <<>>)
        /\ Len(JointEvents(events')) <= num_joints * Cardinality(JointAttrs)
        /\ \A i \in DOMAIN JointEvents(events') :
             JointEvents(events')[i].val[1] < num_joints
        /\ joint_old' = lcnc["joint"]]_vars

C14_Witness ==
  /\ last_op = "periodic"
  /\ Len(JointEvents(events)) = 2
  /\ JointEvents(events)[1].val[2] = TRUE
  /\ joint_old = lcnc["joint"]
  /\ joint_old # InitJoint

\* the position of the field k in the declaration order
DeclIndex(k) == CHOOSE i \in DOMAIN DeclOrder : DeclOrder[i] = k

\* the fields whose raw event is upstream of the derived signal sig
Upstream(sig) ==
  IF sig = "axis_positions"
    THEN {SelectedPosition, "g5x_offset", "g92_offset", "tool_offset",
          "rotation_xy"}
  ELSE IF sig = "joint_positions"
    THEN {IF report_actual_position THEN "joint_actual_position"
                                    ELSE "joint_position"}
  ELSE {}

\* C15: the raw events of a cycle come in declaration order, and a derived
\* event comes after the raw events of all its changed upstream fields.
C15_DeclarationOrder ==
  last_op = "periodic" =>
    /\ \A i \in DOMAIN RawEvents(events) : \A j \in DOMAIN RawEvents(events) :
         i < j => DeclIndex(RawEvents(events)[i].chan)
                    < DeclIndex(RawEvents(events)[j].chan)
    /\ \A i \in DOMAIN events : \A j \in DOMAIN events :
         (/\ events[i].src = "status"
          /\ events[i].chan \in {"axis_positions", "joint_positions"}
          /\ events[j].src = "status"
          /\ events[j].chan \in Upstream(events[i].chan))
         => j < i

\* cos and sin of a multiple of 90 degrees
CosDeg(a) == CASE a % 360 = 0 -> 1 [] a % 360 = 90 -> 0
               [] a % 360 = 180 -> -1 [] a % 360 = 270 -> 0
SinDeg(a) == CASE a % 360 = 0 -> 0 [] a % 360 = 90 -> 1
               [] a % 360 = 180 -> 0 [] a % 360 = 270 -> -1

\* the relative vector of the absolute vector pos in the snapshot s:
\* pos - g5x - tool, rotated by -rotation_xy in XY, then - g92
RelativeOf(pos, s) ==
  LET b == [i \in DOMAIN pos |->
              pos[i] - s["g5x_offset"][i] - s["tool_offset"][i]]
      t == 0 - s["rotation_xy"]
      r == IF s["rotation_xy"] # 0
             THEN [i \in DOMAIN b |->
                     IF i = 1 THEN b[1] * CosDeg(t) - b[2] * SinDeg(t)
                     ELSE IF i = 2 THEN b[1] * SinDeg(t) + b[2] * CosDeg(t)
                     ELSE b[i]]
             ELSE b
  IN  [i \in DOMAIN r |-> r[i] - s["g92_offset"][i]]

\* the raw events of es whose signal calls updateAxisPositions
AxisCalls(es, conn) ==
  SelectSeq(RawEvents(es),
            LAMBDA e : Connected_in(conn, "updateAxisPositions", e.chan) > 0)

\* C16: every call of updateAxisPositions publishes axis_positions, with
\* relative = absolute - g5x - tool, rotated by -rotation_xy, then - g92.
C16_RelativePosition ==
  [][(last_op' \in {"periodic", "forceUpdate"})
     => /\ Len(AxisEvents(events')) = Len(AxisCalls(events', connections))
        /\ \A i \in DOMAIN AxisEvents(events') :
             AxisEvents(events')[i].val[2]
               = RelativeOf(AxisEvents(events')[i].val[1], stat')]_vars

\* the display string of the raw codes of the model
GName(code) ==
  CASE code = 10 -> "G1" [] code = 11 -> "G1.1" [] code = 20 -> "G2"
    [] code = 30 -> "G3"

\* the events of es on formated_gcodes
GcodeEvents(es) ==
  SelectSeq(es, LAMBDA e : e.src = "status" /\ e.chan = "formated_gcodes")

\* out lists the codes of raw behind slot 0, the sentinel left out, in
\* ascending order, each under its display string
IsFormatOf(out, raw) ==
  LET codes == SelectSeq(Tail(raw), LAMBDA x : x # -1)
  IN  /\ Len(out) = Len(codes)
      /\ \E p \in Permutations(DOMAIN codes) :
           /\ \A i \in DOMAIN codes : \A j \in DOMAIN codes :
                i < j => codes[p[i]] <= codes[p[j]]
           /\ \A i \in DOMAIN codes : out[i] = GName(codes[p[i]])

\* C17: a change of the G-code list publishes one formated_gcodes event that
\* is the format of the new list; <<_, 10, 11, -1, 20>> gives G1, G1.1, G2.
C17_FormatedGcodes ==
  [][(last_op' = "periodic" /\ alive' /\ old["gcodes"] # lcnc["gcodes"])
     => /\ Len(GcodeEvents(events')) = 1
        /\ IsFormatOf(GcodeEvents(events')[1].val, lcnc["gcodes"])
        /\ lcnc["gcodes"] = <<30, 10, 11, -1, 20>>
             => GcodeEvents(events')[1].val = <<"G1", "G1.1", "G2">>]_vars

C17_Witness ==
  /\ last_op = "periodic"
  /\ stat["gcodes"] = <<30, 10, 11, -1, 20>>
  /\ GcodeEvents(events) = <<Ev("status", "formated_gcodes",
                                <<"G1", "G1.1", "G2">>)>>

\* C18: a cycle in which a slot raised still delivers the raw event of every
\* changed field, runs the per-joint diff and reads the error channel, and
\* the failure is reported.
C18_FailureIsolated ==
  [][(last_op' = "periodic" /\ \E i \in DOMAIN log' : log'[i].level = "exception")
     => /\ alive'
        /\ \A k \in Differing :
             \E i \in DOMAIN events' :
               events'[i].src = "status" /\ events'[i].chan = k
        /\ joint_old' = lcnc["joint"]
        /\ \A j \in 1..num_joints : \A a \in JointAttrs :
             lcnc["joint"][j][a] # joint_old[j][a]
               => JointAttrEvents(events', j - 1, a) # <<>>
        /\ err_queue # <<>> => err_queue' = Tail(err_queue)]_vars

\* C19: a cycle whose poll succeeded reads the error channel once: it takes
\* the oldest pending entry, and publishes at most one event, for that entry.
C19_OneEntryPerCycle ==
  [][(last_op' = "periodic")
     => /\ Len(ErrorEvents(events')) <= 1
        /\ err_queue = <<>> => err_queue' = <<>> /\ ErrorEvents(events') = <<>>
        /\ err_queue # <<>> =>
             /\ err_queue' = Tail(err_queue)
             /\ \A i \in DOMAIN ErrorEvents(events') :
                  ErrorEvents(events')[i].val
                    = (IF Head(err_queue)[2] \in {"", PyNone}
                         THEN "Unknown error!" ELSE Head(err_queue)[2])]_vars

\* the letters of the nine axes
AxisLetters == {"x", "y", "z", "a", "b", "c", "u", "v", "w"}

\* the number of the axis letter s
NumberOf(s) ==
  CASE s = "x" -> 0 [] s = "y" -> 1 [] s = "z" -> 2 [] s = "a" -> 3
    [] s = "b" -> 4 [] s = "c" -> 5 [] s = "u" -> 6 [] s = "v" -> 7
    [] s = "w" -> 8

\* C20: getAxisNumber gives 0..8 for x..w in any case, -1 for 'all' and an
\* integer unchanged; getAxisLetter(-1) is 'all'; getAxisNumber undoes
\* getAxisLetter on -1..8.
C20_AxisRoundTrip ==
  /\ (axis_last.fn = "getAxisNumber" /\ axis_last.arg.type = "str")
       => /\ Lower(axis_last.arg.s) \in AxisLetters
            => axis_last.result = PyInt(NumberOf(Lower(axis_last.arg.s)))
          /\ axis_last.arg.s = "all" => axis_last.result = PyInt(-1)
  /\ (axis_last.fn = "getAxisNumber" /\ axis_last.arg.type = "int")
       => axis_last.result = axis_last.arg
  /\ (axis_last.fn = "getAxisLetter" /\ axis_last.arg = PyInt(-1))
       => axis_last.result = PyStr("all")
  /\ (/\ axis_prev.fn = "getAxisLetter"
      /\ axis_prev.arg.type = "int"
      /\ axis_prev.arg.n \in -1..8
      /\ axis_last.fn = "getAxisNumber"
      /\ axis_last.arg = axis_prev.result)
       => axis_last.result = axis_prev.arg

\* the guard predicates of the action groups
GuardOps == {"estop.is_activated", "power.is_on", "power.ok", "home.ok"}

\* C21: a guard predicate issues no command, does not poll and leaves the
\* snapshot and both baselines as they are; power.ok is true exactly when
\* the snapshot's task_state is ESTOP_RESET, home.ok exactly when it is ON.
C21_GuardsReadOnly ==
  [][(last_op' \in GuardOps)
     => /\ cmds' = <<>>
        /\ events' = <<>>
        /\ stat' = stat /\ old' = old /\ joint_old' = joint_old
        /\ lcnc' = lcnc /\ timer_active' = timer_active
        /\ last_op' = "power.ok"
             => ret'.value = PyBool(stat["task_state"] = "STATE_ESTOP_RESET")
        /\ last_op' = "home.ok"
             => ret'.value = PyBool(stat["task_state"] = "STATE_ON")]_vars

C21_Witness ==
  /\ last_op = "home.ok"
  /\ ret.value = PyBool(TRUE)
  /\ lcnc["task_state"] # stat["task_state"]

\* the raw events of es on the channel of the field k
FieldEvents(es, k) ==
  SelectSeq(es, LAMBDA e : e.src = "status" /\ e.chan = k)

\* C22 as stated: a field whose value changed while polling was halted and
\* still holds that value gets one change event, with the new value, in the
\* first successful cycle after the restart; after every successful cycle
\* the baseline is the snapshot just polled.
C22_ChangedWhileHalted ==
  [][(last_op' = "periodic" /\ alive')
     => /\ (halt.phase = "halted" /\ last_op = "startPeriodic") =>
             \A k \in Fields :
               lcnc[k] # halt.at[k]
                 => FieldEvents(events', k) = <<Ev("status", k, lcnc[k])>>
        /\ \A k \in Fields : old'[k] = stat'[k] /\ stat'[k] = lcnc[k]]_vars

\* C22 amended: a field that differs from the value last published for it
\* when polling is restarted gets one change event, with the new value, in
\* the first successful cycle after the restart, and a field that does not
\* differ gets none; after every successful cycle the baseline is the
\* snapshot just polled.
C22_NoChangeLost ==
  [][(last_op' = "periodic" /\ alive')
     => /\ halt.phase = "halted" =>
             \A k \in Fields :
               FieldEvents(events', k)
                 = (IF lcnc[k] # last_emitted[k]
                      THEN <<Ev("status", k, lcnc[k])>> ELSE <<>>)
        /\ \A k \in Fields : old'[k] = stat'[k] /\ stat'[k] = lcnc[k]]_vars

C22_Witness ==
  /\ last_op = "periodic"
  /\ alive
  /\ halt.phase = "resumed"
  /\ \E k \in Fields :
       /\ stat[k] # halt.at[k]
       /\ FieldEvents(events, k) = <<Ev("status", k, stat[k])>>

\* C23: getValue polls, emits nothing, leaves both baselines and the timer
\* as they are, also when its poll raises; what it was first to read is
\* emitted by the next successful cycle.
C23_GetValueKeepsBaselines ==
  [][/\ last_op' = "getValue" =>
          /\ old' = old /\ joint_old' = joint_old
          /\ events' = <<>>
          /\ timer_active' = timer_active
          /\ stat' = (IF provider_ok THEN lcnc ELSE stat)
          /\ ~provider_ok => ret'.value.type = "exc"
     /\ (last_op' = "periodic" /\ alive' /\ stat = lcnc) =>
          /\ \A k \in Differing :
               FieldEvents(events', k) = <<Ev("status", k, lcnc[k])>>
          /\ \A j \in 1..num_joints : \A a \in JointAttrs :
               lcnc["joint"][j][a] # joint_old[j][a]
                 => JointAttrEvents(events', j - 1, a)
                      = <<Ev("joint", a, <<j - 1, lcnc["joint"][j][a]>>)>>]_vars

C23_Witness ==
  /\ last_op = "getValue"
  /\ stat = lcnc
  /\ \E j \in 1..num_joints : \E a \in JointAttrs :
       /\ ret.value = PyBool(stat["joint"][j][a])
       /\ stat["joint"][j][a] # joint_old[j][a]

\* the positions in es of the events on file_loaded
FileLoadedAt(es) ==
  {i \in DOMAIN es : es[i].src = "status" /\ es[i].chan = "file_loaded"}

\* C24: file_loaded is emitted right after a file event, with its value,
\* while the snapshot is idle at call level 0, and at no other time: not for
\* a file event in another state, not when the interpreter becomes idle.
C24_FileLoadedOnlyWhenIdle ==
  [][/\ \A i \in FileLoadedAt(events') :
          /\ i > 1
          /\ events'[i - 1] = Ev("status", "file", events'[i].val)
          /\ stat'["interp_state"] = "INTERP_IDLE"
          /\ stat'["call_level"] = 0
     /\ (stat'["interp_state"] # "INTERP_IDLE" \/ stat'["call_level"] # 0)
          => FileLoadedAt(events') = {}
     /\ FieldEvents(events', "file") = <<>> => FileLoadedAt(events') = {}]_vars

C24_Witness ==
  /\ last_op = "periodic"
  /\ stat["file"] = "a.ngc"
  /\ events = <<Ev("status", "file", "a.ngc"),
               Ev("status", "file_loaded", "a.ngc")>>

====
